---- MODULE Spec2Model ----
(***************************************************************************)
(* Model of the speech-to-text service (src/src/index.ts): the POST        *)
(* /transcribe handler, the helper convertM4aToWav, and the environment it *)
(* talks to (multer's upload directory, the ffmpeg process, the storage    *)
(* bucket, the recognition service, fs.unlink).                            *)
(*                                                                         *)
(* A string of the program is a sequence of one-character strings, so that *)
(* the path operations (extname, basename, parse, join) and the join of    *)
(* the transcript are computed character by character as Node computes     *)
(* them.                                                                   *)
(***************************************************************************)
EXTENDS Integers, Sequences, FiniteSets, TLC

----------------------------------------------------------------------------
(* Bounds of the model *)

\* number of requests the server receives (each handler run is its own async function call)
NumReqs == 2
\* longest list of results in a recognition response
MaxResults == 2
\* longest list of alternatives in one result
MaxAlts == 2

Reqs == 1..NumReqs

----------------------------------------------------------------------------
(* Strings *)

DOT == "."
SEP == "/"
NL == "\n"

Empty == << >>

\* String.prototype.toLowerCase on the characters the names are made of
LowerChar(c) ==
  CASE c = "M" -> "m"
    [] c = "A" -> "a"
    [] c = "W" -> "w"
    [] c = "V" -> "v"
    [] OTHER -> c

toLowerCase(s) == [i \in 1..Len(s) |-> LowerChar(s[i])]

\* largest index of character c in s, 0 when s has none
LastIndexOf(s, c) ==
  LET hits == {i \in 1..Len(s) : s[i] = c}
  IN IF hits = {} THEN 0 ELSE CHOOSE i \in hits : \A j \in hits : j <= i

\* path.basename (posix) of a path that does not end in a separator
basename(p) == SubSeq(p, LastIndexOf(p, SEP) + 1, Len(p))

\* path.dirname (posix) of a relative path: "" when the path has no separator
dirname(p) ==
  LET i == LastIndexOf(p, SEP) IN IF i = 0 THEN Empty ELSE SubSeq(p, 1, i - 1)

\* path.extname: from the last dot of the base name to its end; "" when the
\* base name has no dot, when its only dot is its first character, and for ".."
extname(p) ==
  LET base == basename(p)
      i == LastIndexOf(base, DOT)
  IN IF i <= 1 \/ base = <<DOT, DOT>> THEN Empty ELSE SubSeq(base, i, Len(base))

\* path.parse: dir, base, ext and name (the base without its ext)
path_parse(p) ==
  LET base == basename(p)
      e == extname(p)
  IN [dir |-> dirname(p), base |-> base, ext |-> e,
      name |-> SubSeq(base, 1, Len(base) - Len(e))]

\* path.join of a directory and a file name
path_join(dir, name) == IF dir = Empty THEN name ELSE dir \o <<SEP>> \o name

M4A == <<".", "m", "4", "a">>
WAV == <<".", "w", "a", "v">>

----------------------------------------------------------------------------
(* Configuration and inputs *)

\* multer({ dest: 'uploads/' })
UploadDir == <<"u", "p", "l", "o", "a", "d", "s">>

\* process.env.GCP_BUCKET_NAME
bucketName == <<"b", "k", "t">>

HexDigits == <<"1", "2", "3", "4", "5", "6", "7", "8", "9", "a", "b", "c">>

\* multer names the stored file with random hex digits, unrelated to the
\* original name and without extension; request r gets a name of its own
GeneratedName(r) == <<"f", HexDigits[r]>>

NoFile == [present |-> FALSE, path |-> Empty, originalname |-> Empty]

\* req.file as multer leaves it for an upload whose original name is name
UploadedFile(r, name) ==
  [present |-> TRUE, path |-> path_join(UploadDir, GeneratedName(r)),
   originalname |-> name]

\* original file names a client may send
Names ==
  { <<"a", ".", "m", "4", "a">>,
    <<"a", ".", "M", "4", "A">>,
    <<"a", ".", "w", "a", "v">>,
    <<".", "m", "4", "a">>,
    <<"m", "4", "a">>,
    <<"a", ".", "m", "4", "a", ".", "w", "a", "v">>,
    <<"a", ".", "w", "a", "v", ".", "m", "4", "a">>,
    <<"a", ".", "m", "4", "a", ".">> }

WavName == <<"a", ".", "w", "a", "v">>

\* the names the requests of the concurrent specification carry
FewNames == { <<"a", ".", "M", "4", "A">>, WavName }

----------------------------------------------------------------------------
(* The recognition response: results?, alternatives? and transcript? may    *)
(* each be absent (undefined or null)                                      *)

Some(v) == [some |-> TRUE, val |-> v]
None == [some |-> FALSE, val |-> Empty]

SeqsUpTo(S, n) == UNION {[1..k -> S] : k \in 0..n}

Transcripts == { <<"h", "i">>, <<"y", "o">> }

AltSet == {[transcript |-> t] : t \in {None} \cup {Some(t) : t \in Transcripts}}

ResultSet ==
  {[alternatives |-> a] :
     a \in {None} \cup {Some(s) : s \in SeqsUpTo(AltSet, MaxAlts)}}

\* every response within the bounds
Responses ==
  {[results |-> rs] :
     rs \in {None} \cup {Some(s) : s \in SeqsUpTo(ResultSet, MaxResults)}}

\* the response the recognition service gives in the concurrent specification
\* (SpecExtract goes through all of Responses)
FewResponses ==
  { [results |-> Some(
       << [alternatives |-> Some(<< [transcript |-> Some(<<"h", "i">>)],
                                    [transcript |-> Some(<<"y", "o">>)] >>)],
          [alternatives |-> Some(<< >>)] >>)] }

----------------------------------------------------------------------------
(* Pure functions of the handler *)

\* line 32: .audioFrequency(16000)
AudioFrequency == 16000

\* line 39: return { wavPath, sampleRate: 16000 }
ConvertedSampleRate == 16000

\* lines 26-27 and 39: the path ffmpeg writes to, and the sample rate returned
convertM4aToWav(inputPath) ==
  LET parsed == path_parse(inputPath)
  IN [wavPath |-> path_join(parsed.dir, parsed.name \o WAV),
      sampleRate |-> ConvertedSampleRate]

\* line 58: let sampleRate = 16000
DefaultSampleRate == 16000

\* ExtOf without the toLowerCase
ExtOf_CaseSensitive(name) == extname(name)

\* line 54: path.extname(originalName).toLowerCase()
ExtOf(name) == toLowerCase(extname(name))

\* NeedsConversion for every extension but .wav
NeedsConversion_NotWav(e) == e # WAV

\* line 60: ext === '.m4a'
NeedsConversion(e) == e = M4A

\* line 77: `gs://${bucketName}/${gcsName}`
gcsUriOf(name) ==
  <<"g", "s", ":", "/", "/">> \o bucketName \o <<SEP>> \o name

\* Array.prototype.join
RECURSIVE array_join(_, _)
array_join(parts, sep) ==
  IF Len(parts) = 0 THEN Empty
  ELSE IF Len(parts) = 1 THEN parts[1]
  ELSE parts[1] \o sep \o array_join(Tail(parts), sep)

\* TopTranscript taking the last alternative instead of the first
TopTranscript_Last(result) ==
  IF /\ result.alternatives.some
     /\ Len(result.alternatives.val) >= 1
     /\ result.alternatives.val[Len(result.alternatives.val)].transcript.some
  THEN result.alternatives.val[Len(result.alternatives.val)].transcript.val
  ELSE Empty

\* line 103: result.alternatives?.[0]?.transcript ?? ''
TopTranscript(result) ==
  IF /\ result.alternatives.some
     /\ Len(result.alternatives.val) >= 1
     /\ result.alternatives.val[1].transcript.some
  THEN result.alternatives.val[1].transcript.val
  ELSE Empty

\* line 103: response.results?.map(...).join('\n') ?? ''
Transcription(response) ==
  IF response.results.some
  THEN array_join([i \in 1..Len(response.results.val) |->
                     TopTranscript(response.results.val[i])], <<NL>>)
  ELSE Empty

----------------------------------------------------------------------------
(* Calls to the outside world, responses, log entries *)

Call(op, a, b, n) == [op |-> op, a |-> a, b |-> b, n |-> n]

\* line 30-36: ffmpeg(inputPath) ... .audioFrequency(16000) ... .save(wavPath)
FfmpegCall(inputPath) ==
  Call("ffmpeg", inputPath, convertM4aToWav(inputPath).wavPath, AudioFrequency)

\* line 83: storage.bucket(bucketName).upload(wavPath, { destination: gcsName })
UploadCall(wp, name) == Call("upload", wp, name, 0)

\* line 88: speechClient.recognize({ audio: { uri }, config: { sampleRateHertz } })
RecognizeCall(uri, rate) == Call("recognize", uri, Empty, rate)

\* fs.unlink(path, callback)
UnlinkCall(p) == Call("unlink", p, Empty, 0)

\* line 112: storage.bucket(bucketName).file(gcsName).delete()
DeleteCall(name) == Call("gcsDelete", name, Empty, 0)

\* res.status(status).send(body)
Send(status, body) ==
  [status |-> status, kind |-> "send", body |-> body, text |-> Empty]

\* res.json({ text })
JsonText(text) == [status |-> 200, kind |-> "json", body |-> "", text |-> text]

LogEntry(msg, arg) == [msg |-> msg, arg |-> arg]

----------------------------------------------------------------------------
(* State *)

VARIABLES
  pc,            \* pc[r]: where request r's handler is suspended
  route,         \* route[r]: the route request r was sent to
  text,          \* text[r]: req.body.text of a /speak request
  audio,         \* audio[r]: response.audioContent of a /speak request
  file,          \* file[r]: req.file
  ext,           \* ext[r]: the handler's local ext
  wavPath,       \* wavPath[r]: the handler's local wavPath
  sampleRate,    \* sampleRate[r]: the handler's local sampleRate
  gcsName,       \* gcsName[r]: the handler's local gcsName
  response,      \* response[r]: the handler's local response (line 88)
  transcription, \* transcription[r]: the handler's local transcription
  res,           \* res[r]: the responses sent on request r, in order
  calls,         \* calls[r]: the outside calls request r made, in order
  logs,          \* logs[r]: what request r wrote to the console
  unlinks,       \* fs.unlink operations whose callback has not run yet
  outcomes,      \* outcomes[r]: how the calls request r awaited ended, in order
  unlinked,      \* how the completed fs.unlink operations ended
  disk,          \* the paths that exist on the local disk
  bucket         \* the objects of the storage bucket, with their uploader

vars == <<pc, route, text, audio, file, ext, wavPath, sampleRate, gcsName, response,
          transcription, res, calls, logs, unlinks, outcomes, unlinked, disk,
          bucket>>

locals == <<ext, wavPath, sampleRate, gcsName, response, transcription>>

\* the state of the /speak handler
speak == <<text, audio>>

\* recognition has not answered yet
NoResponse == [results |-> None]

Init ==
  /\ pc = [r \in Reqs |-> "idle"]
  /\ route = [r \in Reqs |-> ""]
  /\ text = [r \in Reqs |-> None]
  /\ audio = [r \in Reqs |-> None]
  /\ file = [r \in Reqs |-> NoFile]
  /\ ext = [r \in Reqs |-> Empty]
  /\ wavPath = [r \in Reqs |-> Empty]
  /\ sampleRate = [r \in Reqs |-> 0]
  /\ gcsName = [r \in Reqs |-> Empty]
  /\ response = [r \in Reqs |-> NoResponse]
  /\ transcription = [r \in Reqs |-> Empty]
  /\ res = [r \in Reqs |-> << >>]
  /\ calls = [r \in Reqs |-> << >>]
  /\ logs = [r \in Reqs |-> {}]
  /\ unlinks = {}
  /\ outcomes = [r \in Reqs |-> << >>]
  /\ unlinked = {}
  /\ disk = {}
  /\ bucket = {}

filePath(r) == file[r].path
originalName(r) == file[r].originalname

Keys(b) == {o.key : o \in b}

\* the awaited call op of request r ended: ok, or with an error
Outcome(op, ok) == [op |-> op, ok |-> ok]
Settle(r, op, ok) == outcomes' = [outcomes EXCEPT ![r] = Append(@, Outcome(op, ok))]

----------------------------------------------------------------------------
(* Steps of the /transcribe handler *)

\* RejectNoFile without its return: the handler answers 400 and goes on to
\* the upload with the undefined path
RejectNoFile_NoReturn(r) ==
  /\ res' = [res EXCEPT ![r] = Append(@, Send(400, "No audio file uploaded"))]
  /\ logs' = [logs EXCEPT ![r] = @ \cup {LogEntry("No audio file uploaded or file path is missing", Empty)}]
  /\ calls' = [calls EXCEPT ![r] = Append(@, UploadCall(Empty, Empty))]
  /\ pc' = [pc EXCEPT ![r] = "upload"]
  /\ UNCHANGED <<locals, unlinks, bucket>>

\* lines 46-51: no file, answer 400 and return
RejectNoFile(r) ==
  /\ res' = [res EXCEPT ![r] = Append(@, Send(400, "No audio file uploaded"))]
  /\ logs' = [logs EXCEPT ![r] = @ \cup {LogEntry("No audio file uploaded or file path is missing", Empty)}]
  /\ pc' = [pc EXCEPT ![r] = "done"]
  /\ UNCHANGED <<locals, calls, unlinks, bucket>>

\* StartUpload with a key that carries a token of the request
StartUpload_RequestKey(r, wp, cs) ==
  /\ gcsName' = [gcsName EXCEPT ![r] = basename(wp) \o <<"-", HexDigits[r]>>]
  /\ calls' = [calls EXCEPT ![r] =
                 Append(cs, UploadCall(wp, basename(wp) \o <<"-", HexDigits[r]>>))]
  /\ pc' = [pc EXCEPT ![r] = "upload"]

\* StartUpload with one fixed object key for every upload
StartUpload_FixedKey(r, wp, cs) ==
  /\ gcsName' = [gcsName EXCEPT ![r] = <<"a", "u", "d", "i", "o">>]
  /\ calls' = [calls EXCEPT ![r] = Append(cs, UploadCall(wp, <<"a", "u", "d", "i", "o">>))]
  /\ pc' = [pc EXCEPT ![r] = "upload"]

\* StartUpload that does not await the upload: the recognition call is
\* started with it
StartUpload_NoAwait(r, wp, cs) ==
  /\ gcsName' = [gcsName EXCEPT ![r] = basename(wp)]
  /\ calls' = [calls EXCEPT ![r] =
                 cs \o <<UploadCall(wp, basename(wp)),
                         RecognizeCall(gcsUriOf(basename(wp)), sampleRate[r])>>]
  /\ pc' = [pc EXCEPT ![r] = "upload"]

\* lines 76-85: derive the object key from wp and start the upload of wp;
\* cs is the list of calls the request has made so far
StartUpload(r, wp, cs) ==
  /\ gcsName' = [gcsName EXCEPT ![r] = basename(wp)]
  /\ calls' = [calls EXCEPT ![r] = Append(cs, UploadCall(wp, basename(wp)))]
  /\ pc' = [pc EXCEPT ![r] = "upload"]

\* CatchTranscribe answering with an empty transcript instead of the error
CatchTranscribe_EmptyTranscript(r) ==
  /\ logs' = [logs EXCEPT ![r] = @ \cup {LogEntry("There was an error transcribing the audio file", Empty)}]
  /\ res' = [res EXCEPT ![r] = Append(@, JsonText(Empty))]
  /\ pc' = [pc EXCEPT ![r] = "done"]
  /\ UNCHANGED <<calls, unlinks>>

\* CatchTranscribe with the cleanup of a finally: it unlinks the uploaded file
\* and asks for the remote delete before it answers
CatchTranscribe_WithCleanup(r) ==
  /\ logs' = [logs EXCEPT ![r] = @ \cup {LogEntry("There was an error transcribing the audio file", Empty)}]
  /\ res' = [res EXCEPT ![r] = Append(@, Send(500, "Transcription failed."))]
  /\ pc' = [pc EXCEPT ![r] = "done"]
  /\ calls' = [calls EXCEPT ![r] = @ \o <<UnlinkCall(filePath(r)), DeleteCall(gcsName[r])>>]
  /\ unlinks' = unlinks \cup {[req |-> r, path |-> filePath(r)]}

\* lines 116-120: the catch of the remote stage: it logs and answers 500, and
\* makes no call
CatchTranscribe(r) ==
  /\ logs' = [logs EXCEPT ![r] = @ \cup {LogEntry("There was an error transcribing the audio file", Empty)}]
  /\ res' = [res EXCEPT ![r] = Append(@, Send(500, "Transcription failed."))]
  /\ pc' = [pc EXCEPT ![r] = "done"]
  /\ UNCHANGED <<calls, unlinks>>

\* lines 42-62 and 76-85: multer stores the upload, the handler runs up to its
\* first await (the transcoding, or the storage upload when none is needed)
Transcribe(r, f) ==
  /\ pc[r] = "idle"
  /\ route' = [route EXCEPT ![r] = "/transcribe"]
  /\ UNCHANGED speak
  /\ file' = [file EXCEPT ![r] = f]
  /\ disk' = IF f.present THEN disk \cup {f.path} ELSE disk
  /\ IF ~f.present \/ f.path = Empty \/ f.originalname = Empty
     THEN RejectNoFile(r)
     ELSE /\ ext' = [ext EXCEPT ![r] = ExtOf(f.originalname)]
          /\ wavPath' = [wavPath EXCEPT ![r] = f.path]
          /\ sampleRate' = [sampleRate EXCEPT ![r] = DefaultSampleRate]
          /\ IF NeedsConversion(ExtOf(f.originalname))
             THEN /\ calls' = [calls EXCEPT ![r] = Append(@, FfmpegCall(f.path))]
                  /\ pc' = [pc EXCEPT ![r] = "convert"]
                  /\ UNCHANGED gcsName
             ELSE StartUpload(r, f.path, calls[r])
          /\ UNCHANGED <<response, transcription, res, logs, unlinks, bucket>>
  /\ UNCHANGED <<outcomes, unlinked>>

\* CatchConvert without the fs.unlink of the uploaded file
CatchConvert_NoUnlink(r) ==
  /\ logs' = [logs EXCEPT ![r] = @ \cup {LogEntry("There was an error converting the file", Empty)}]
  /\ res' = [res EXCEPT ![r] = Append(@, Send(500, "Could not convert m4a to wav"))]
  /\ pc' = [pc EXCEPT ![r] = "done"]
  /\ UNCHANGED <<wavPath, sampleRate, gcsName, calls, unlinks>>

\* CatchConvert that also unlinks the .wav path the transcoding wrote to
CatchConvert_UnlinksTarget(r) ==
  /\ calls' = [calls EXCEPT ![r] =
                 @ \o <<UnlinkCall(filePath(r)),
                        UnlinkCall(convertM4aToWav(filePath(r)).wavPath)>>]
  /\ unlinks' = unlinks \cup {[req |-> r, path |-> filePath(r)],
                              [req |-> r, path |-> convertM4aToWav(filePath(r)).wavPath]}
  /\ logs' = [logs EXCEPT ![r] = @ \cup {LogEntry("There was an error converting the file", Empty)}]
  /\ res' = [res EXCEPT ![r] = Append(@, Send(500, "Could not convert m4a to wav"))]
  /\ pc' = [pc EXCEPT ![r] = "done"]
  /\ UNCHANGED <<wavPath, sampleRate, gcsName>>

\* lines 65-72: the catch of the transcoding: unlink the upload, answer 500
CatchConvert(r) ==
  /\ calls' = [calls EXCEPT ![r] = Append(@, UnlinkCall(filePath(r)))]
  /\ unlinks' = unlinks \cup {[req |-> r, path |-> filePath(r)]}
  /\ logs' = [logs EXCEPT ![r] = @ \cup {LogEntry("There was an error converting the file", Empty)}]
  /\ res' = [res EXCEPT ![r] = Append(@, Send(500, "Could not convert m4a to wav"))]
  /\ pc' = [pc EXCEPT ![r] = "done"]
  /\ UNCHANGED <<wavPath, sampleRate, gcsName>>

\* lines 29-39 and 62-85: ffmpeg ends or fails.  On 'end' the .wav file is on
\* the disk; on 'error' ffmpeg may or may not have left a partial .wav file
ConvertDone(r, ok, partial) ==
  /\ pc[r] = "convert"
  /\ Settle(r, "ffmpeg", ok /\ filePath(r) \in disk)
  /\ LET result == convertM4aToWav(filePath(r))
     IN IF ok /\ filePath(r) \in disk
        THEN /\ disk' = disk \cup {result.wavPath}
             /\ wavPath' = [wavPath EXCEPT ![r] = result.wavPath]
             /\ sampleRate' = [sampleRate EXCEPT ![r] = result.sampleRate]
             /\ StartUpload(r, result.wavPath, calls[r])
             /\ UNCHANGED <<res, logs, unlinks>>
        ELSE /\ disk' = IF partial THEN disk \cup {result.wavPath} ELSE disk
             /\ CatchConvert(r)
  /\ UNCHANGED <<route, speak, file, ext, response, transcription, bucket, unlinked>>

\* lines 83-96: the upload ends; on success the recognition call starts
UploadDone(r, ok) ==
  /\ pc[r] = "upload"
  /\ Settle(r, "upload", ok /\ wavPath[r] \in disk)
  /\ IF ok /\ wavPath[r] \in disk
     THEN /\ bucket' = {o \in bucket : o.key # gcsName[r]}
                         \cup {[key |-> gcsName[r], owner |-> r]}
          /\ calls' = [calls EXCEPT ![r] =
                         Append(@, RecognizeCall(gcsUriOf(gcsName[r]), sampleRate[r]))]
          /\ pc' = [pc EXCEPT ![r] = "recognize"]
          /\ UNCHANGED <<res, logs, unlinks>>
     ELSE /\ CatchTranscribe(r)
          /\ UNCHANGED bucket
  /\ UNCHANGED <<route, speak, file, locals, unlinked, disk>>

\* CleanupCalls without the test filePath !== wavPath
CleanupCalls_NoGuard(fp, wp, name) ==
  <<UnlinkCall(fp), UnlinkCall(wp), DeleteCall(name)>>

\* lines 105-112: the calls of the cleanup, in order
CleanupCalls(fp, wp, name) ==
  (IF fp # wp THEN <<UnlinkCall(fp)>> ELSE << >>)
    \o <<UnlinkCall(wp), DeleteCall(name)>>

\* lines 88-112: the recognition call ends, with a failure or with one of the
\* given responses; on success the transcript is extracted, the local files
\* are unlinked and the remote delete starts
RecognizeDone(r, responses) ==
  /\ pc[r] = "recognize"
  /\ \E ok \in BOOLEAN, resp \in responses :
       /\ Settle(r, "recognize", ok /\ gcsName[r] \in Keys(bucket))
       /\ IF ok /\ gcsName[r] \in Keys(bucket)
          THEN /\ response' = [response EXCEPT ![r] = resp]
               /\ transcription' = [transcription EXCEPT ![r] = Transcription(resp)]
               /\ LET cs == CleanupCalls(filePath(r), wavPath[r], gcsName[r])
                  IN /\ calls' = [calls EXCEPT ![r] = @ \o cs]
                     /\ unlinks' = unlinks \cup
                          {[req |-> r, path |-> cs[i].a] :
                             i \in {j \in 1..Len(cs) : cs[j].op = "unlink"}}
               /\ pc' = [pc EXCEPT ![r] = "gcsDelete"]
               /\ UNCHANGED <<res, logs>>
          ELSE /\ CatchTranscribe(r)
               /\ UNCHANGED <<response, transcription>>
  /\ UNCHANGED <<route, speak, file, ext, wavPath, sampleRate, gcsName, unlinked,
                 disk, bucket>>

\* lines 112-120: the remote delete ends; on success the transcript is sent
DeleteDone(r, ok) ==
  /\ pc[r] = "gcsDelete"
  /\ Settle(r, "gcsDelete", ok /\ gcsName[r] \in Keys(bucket))
  /\ IF ok /\ gcsName[r] \in Keys(bucket)
     THEN /\ bucket' = {o \in bucket : o.key # gcsName[r]}
          /\ logs' = [logs EXCEPT ![r] = @ \cup {LogEntry("Transcription for", originalName(r))}]
          /\ res' = [res EXCEPT ![r] = Append(@, JsonText(transcription[r]))]
          /\ pc' = [pc EXCEPT ![r] = "done"]
          /\ UNCHANGED <<calls, unlinks>>
     ELSE /\ CatchTranscribe(r)
          /\ UNCHANGED bucket
  /\ UNCHANGED <<route, speak, file, locals, unlinked, disk>>

\* UnlinkCallback failing the request when the unlink failed
UnlinkCallback_Fails(r, p, err) ==
  /\ logs' = [logs EXCEPT ![r] =
                IF err THEN @ \cup {LogEntry("Error deleting file:", p)} ELSE @]
  /\ res' = [res EXCEPT ![r] =
               IF err THEN Append(@, Send(500, "Transcription failed.")) ELSE @]
  /\ UNCHANGED pc

\* lines 66-68, 107, 109: the callback given to fs.unlink
UnlinkCallback(r, p, err) ==
  /\ logs' = [logs EXCEPT ![r] =
                IF err THEN @ \cup {LogEntry("Error deleting file:", p)} ELSE @]
  /\ UNCHANGED <<pc, res>>

\* an fs.unlink of request r completes: the file is removed, or the removal
\* fails (the file is missing, or the system refuses) and the callback gets
\* the error
UnlinkDone(r, ok) ==
  \E u \in {v \in unlinks : v.req = r} :
    LET removed == ok /\ u.path \in disk
    IN /\ unlinks' = unlinks \ {u}
       /\ unlinked' = unlinked \cup {[req |-> r, path |-> u.path, ok |-> removed]}
       /\ disk' = IF removed THEN disk \ {u.path} ELSE disk
       /\ UnlinkCallback(r, u.path, ~removed)
       /\ UNCHANGED <<route, speak, file, locals, calls, outcomes, bucket>>

----------------------------------------------------------------------------
(* Steps of the /speak handler *)

\* req.body.text: absent, empty, or a text
Texts == {None, Some(Empty), Some(<<"h", "i">>)}

\* response.audioContent: absent (null or undefined), or the bytes of a
\* Buffer, which may be empty
AudioContents == {None, Some(Empty), Some(<<"I", "D", "3">>)}

\* ttsClient.synthesizeSpeech(request), lines 135-147
SynthesizeCall(t) == Call("synthesize", t, Empty, 0)

\* res.status(status).json({ error })
JsonError(status, msg) == [status |-> status, kind |-> "json", error |-> msg]

\* lines 155-159: res.set({ 'Content-Type', 'Content-Disposition' }) and
\* res.send(response.audioContent)
SendAudio(bytes) ==
  [status |-> 200, kind |-> "send", contentType |-> "audio/mpeg",
   disposition |-> "attachment; filename=\"speech.mp3\"", bytes |-> bytes]

\* Falsy that only sees an absent text (text === undefined)
Falsy_OnlyAbsent(v) == ~v.some

\* line 126: !text, of a text that is absent or a string
Falsy(v) == ~v.some \/ v.val = Empty

\* line 149: !response.audioContent, of a payload that is absent or a Buffer:
\* an object is truthy whatever its length
FalsyBuffer(v) == ~v.some

\* lines 123-147: the handler runs up to the await of the synthesis
Speak(r, t) ==
  /\ pc[r] = "idle"
  /\ route' = [route EXCEPT ![r] = "/speak"]
  /\ text' = [text EXCEPT ![r] = t]
  /\ IF Falsy(t)
     THEN /\ logs' = [logs EXCEPT ![r] = @ \cup {LogEntry("No \"text\" provided in request body", Empty)}]
          /\ res' = [res EXCEPT ![r] = Append(@, JsonError(400, "Missing \"text\" in request body"))]
          /\ pc' = [pc EXCEPT ![r] = "done"]
          /\ UNCHANGED calls
     ELSE /\ logs' = [logs EXCEPT ![r] = @ \cup {LogEntry("Received text to synthesize", t.val)}]
          /\ calls' = [calls EXCEPT ![r] = Append(@, SynthesizeCall(t.val))]
          /\ pc' = [pc EXCEPT ![r] = "synth"]
          /\ UNCHANGED res
  /\ UNCHANGED <<audio, file, locals, unlinks, outcomes, unlinked, disk, bucket>>

\* SpeakRespond without the return of line 152: after the 500 the handler
\* goes on and sends the payload
SpeakRespond_NoReturn(r, content) ==
  IF FalsyBuffer(content)
  THEN res' = [res EXCEPT ![r] =
                 @ \o <<JsonError(500, "Failed to synthesize speech"), SendAudio(Empty)>>]
  ELSE res' = [res EXCEPT ![r] = Append(@, SendAudio(content.val))]

\* lines 149-159: the synthesis answered with the payload content
SpeakRespond(r, content) ==
  IF FalsyBuffer(content)
  THEN res' = [res EXCEPT ![r] = Append(@, JsonError(500, "Failed to synthesize speech"))]
  ELSE res' = [res EXCEPT ![r] = Append(@, SendAudio(content.val))]

\* SynthDone calling the synthesis a second time after a first failure
SynthDone_Retry(r, ok, content) ==
  /\ pc[r] = "synth"
  /\ Settle(r, "synthesize", ok)
  /\ IF ok
     THEN /\ audio' = [audio EXCEPT ![r] = content]
          /\ SpeakRespond(r, content)
          /\ pc' = [pc EXCEPT ![r] = "done"]
          /\ UNCHANGED <<logs, calls>>
     ELSE IF Len(calls[r]) < 2
          THEN /\ calls' = [calls EXCEPT ![r] = Append(@, SynthesizeCall(text[r].val))]
               /\ UNCHANGED <<pc, res, logs, audio>>
          ELSE /\ logs' = [logs EXCEPT ![r] = @ \cup {LogEntry("Text-to-Speech error:", Empty)}]
               /\ res' = [res EXCEPT ![r] = Append(@, JsonError(500, "Text-to-Speech failed"))]
               /\ pc' = [pc EXCEPT ![r] = "done"]
               /\ UNCHANGED <<audio, calls>>
  /\ UNCHANGED <<route, text, file, locals, unlinks, unlinked, disk, bucket>>

\* lines 147-163: the synthesis call ends, with a failure or with a payload
SynthDone(r, ok, content) ==
  /\ pc[r] = "synth"
  /\ Settle(r, "synthesize", ok)
  /\ IF ok
     THEN /\ audio' = [audio EXCEPT ![r] = content]
          /\ SpeakRespond(r, content)
          /\ UNCHANGED logs
     ELSE /\ logs' = [logs EXCEPT ![r] = @ \cup {LogEntry("Text-to-Speech error:", Empty)}]
          /\ res' = [res EXCEPT ![r] = Append(@, JsonError(500, "Text-to-Speech failed"))]
          /\ UNCHANGED audio
  /\ pc' = [pc EXCEPT ![r] = "done"]
  /\ UNCHANGED <<route, text, file, locals, calls, unlinks, unlinked, disk, bucket>>

----------------------------------------------------------------------------
(* Specifications *)

\* what a client may send as the audio field of request r
FilesOf(r, names) == {NoFile} \cup {UploadedFile(r, n) : n \in names}

\* concurrent requests
Next ==
  \E r \in Reqs :
    \/ \E f \in FilesOf(r, FewNames) : Transcribe(r, f)
    \/ \E ok \in BOOLEAN, partial \in BOOLEAN : ConvertDone(r, ok, partial)
    \/ \E ok \in BOOLEAN : UploadDone(r, ok)
    \/ RecognizeDone(r, FewResponses)
    \/ \E ok \in BOOLEAN : DeleteDone(r, ok)
    \/ \E ok \in BOOLEAN : UnlinkDone(r, ok)
    \/ \E t \in Texts : Speak(r, t)
    \/ \E ok \in BOOLEAN, content \in AudioContents : SynthDone(r, ok, content)

Spec == Init /\ [][Next]_vars

\* concurrent requests that need no transcoding and whose uploads multer
\* stored under the same name
NextCollide ==
  \E r \in Reqs :
    \/ \E f \in FilesOf(1, {WavName}) : Transcribe(r, f)
    \/ \E ok \in BOOLEAN : UploadDone(r, ok)
    \/ RecognizeDone(r, FewResponses)
    \/ \E ok \in BOOLEAN : DeleteDone(r, ok)
    \/ \E ok \in BOOLEAN : UnlinkDone(r, ok)

SpecCollide == Init /\ [][NextCollide]_vars

\* one request, every original name
NextNames ==
  \/ \E f \in FilesOf(1, Names) : Transcribe(1, f)
  \/ \E ok \in BOOLEAN, partial \in BOOLEAN : ConvertDone(1, ok, partial)
  \/ \E ok \in BOOLEAN : UploadDone(1, ok)
  \/ RecognizeDone(1, FewResponses)
  \/ \E ok \in BOOLEAN : DeleteDone(1, ok)
  \/ \E ok \in BOOLEAN : UnlinkDone(1, ok)

SpecNames == Init /\ [][NextNames]_vars

\* one request that needs no transcoding, every recognition response
NextExtract ==
  \/ \E f \in FilesOf(1, {WavName}) : Transcribe(1, f)
  \/ \E ok \in BOOLEAN : UploadDone(1, ok)
  \/ RecognizeDone(1, Responses)
  \/ \E ok \in BOOLEAN : DeleteDone(1, ok)
  \/ \E ok \in BOOLEAN : UnlinkDone(1, ok)

SpecExtract == Init /\ [][NextExtract]_vars

----------------------------------------------------------------------------
(* Vocabulary of the properties *)

Range(q) == {q[i] : i \in 1..Len(q)}

Started(r) == pc[r] # "idle"
Done(r) == pc[r] = "done"

\* the awaited call op of request r ended with an error / without one
Failed(r, op) == Outcome(op, FALSE) \in Range(outcomes[r])
Succeeded(r, op) == Outcome(op, TRUE) \in Range(outcomes[r])

\* request r has made a call op
Called(r, op) == \E c \in Range(calls[r]) : c.op = op

\* request r has asked for the deletion of the local path p
UnlinkAttempted(r, p) == UnlinkCall(p) \in Range(calls[r])

\* an unlink of request r failed
UnlinkFailed(r) == \E u \in unlinked : u.req = r /\ ~u.ok

\* the one response of a request that answered
Answered(r, response1) == res[r] = <<response1>>

----------------------------------------------------------------------------
(* Properties *)

\* C1: a /transcribe request that carries no uploaded file is answered 400
\* "No audio file uploaded" and nothing else happens for it: no transcoding,
\* no upload, no recognition, no local or remote deletion.
C1_NoFileRejected ==
  \A r \in Reqs :
    (route[r] = "/transcribe" /\ ~file[r].present) =>
      /\ Done(r)
      /\ Answered(r, Send(400, "No audio file uploaded"))
      /\ calls[r] = << >>
      /\ outcomes[r] = << >>
      /\ ~\E u \in unlinks \cup unlinked : u.req = r

C1_Witness ==
  \E r \in Reqs :
    /\ route[r] = "/transcribe"
    /\ Done(r) /\ ~file[r].present /\ Len(res[r]) = 1 /\ res[r][1].status = 400

\* C2: when the transcoding of a request fails, the deletion of the uploaded
\* local file is issued (and the file is gone once that unlink has ended
\* without error), the response is 500 "Could not convert m4a to wav", and
\* the request makes no upload, recognition or remote delete call.
C2_ConvertFailure ==
  \A r \in Reqs :
    Failed(r, "ffmpeg") =>
      /\ Done(r)
      /\ Answered(r, Send(500, "Could not convert m4a to wav"))
      /\ UnlinkAttempted(r, filePath(r))
      /\ \/ [req |-> r, path |-> filePath(r)] \in unlinks
         \/ \E u \in unlinked : u.req = r /\ u.path = filePath(r)
      /\ [req |-> r, path |-> filePath(r), ok |-> TRUE] \in unlinked
           => filePath(r) \notin disk
      /\ ~Called(r, "upload")
      /\ ~Called(r, "recognize")
      /\ ~Called(r, "gcsDelete")

C2_Witness ==
  \E r \in Reqs :
    /\ Failed(r, "ffmpeg")
    /\ [req |-> r, path |-> filePath(r), ok |-> TRUE] \in unlinked
    /\ filePath(r) \notin disk

\* C3: a failure of the storage upload or of the recognition call is
\* answered 500 "Transcription failed.", no transcript is returned, and after
\* a failed upload the recognition call is never made.
C3_RemoteFailure ==
  \A r \in Reqs :
    (Failed(r, "upload") \/ Failed(r, "recognize")) =>
      /\ Done(r)
      /\ Answered(r, Send(500, "Transcription failed."))
      /\ \A i \in 1..Len(res[r]) : res[r][i].kind # "json"
      /\ Failed(r, "upload") => ~Called(r, "recognize")

C3_Witness ==
  /\ \E r \in Reqs : Failed(r, "upload") /\ Done(r)
  /\ \E r \in Reqs : Failed(r, "recognize") /\ Done(r)

\* C4: when transcoding, upload and recognition succeeded, a failure of the
\* remote object deletion does not fail the request: the response is still
\* 200 with the transcript.
C4_DeleteFailureStill200 ==
  \A r \in Reqs :
    (Done(r) /\ Succeeded(r, "recognize") /\ Failed(r, "gcsDelete")) =>
      Answered(r, JsonText(transcription[r]))

\* the response a finished /transcribe request gives, from its input and from
\* how its awaited calls ended; the local deletions play no part in it
ResponseFor(r) ==
  IF ~file[r].present THEN Send(400, "No audio file uploaded")
  ELSE IF Failed(r, "ffmpeg") THEN Send(500, "Could not convert m4a to wav")
  ELSE IF Failed(r, "upload") \/ Failed(r, "recognize") \/ Failed(r, "gcsDelete")
       THEN Send(500, "Transcription failed.")
  ELSE JsonText(Transcription(response[r]))

\* C5: a failed local file deletion is logged only: the response of the
\* request is the one its other steps determine, and the steps after the
\* deletion (the remote delete, the response) still run.
C5_UnlinkFailureLoggedOnly ==
  \A r \in Reqs :
    /\ (Done(r) /\ route[r] = "/transcribe") => Answered(r, ResponseFor(r))
    /\ ~Done(r) => res[r] = << >>
    /\ \A u \in unlinked :
         (u.req = r /\ ~u.ok) => LogEntry("Error deleting file:", u.path) \in logs[r]
    /\ (Succeeded(r, "recognize") /\ UnlinkAttempted(r, wavPath[r]))
         => Called(r, "gcsDelete")
    /\ (UnlinkFailed(r) /\ ~Done(r)) => pc[r] = "gcsDelete"

C5_Witness ==
  \E r \in Reqs :
    /\ Done(r)
    /\ [req |-> r, path |-> wavPath[r], ok |-> FALSE] \in unlinked
    /\ Succeeded(r, "gcsDelete")
    /\ Answered(r, JsonText(transcription[r]))

\* C6: no request whose storage upload succeeded finishes without having
\* attempted the deletion of the remote object, whether recognition
\* succeeded or failed.
C6_RemoteDeleteAlwaysAttempted ==
  \A r \in Reqs :
    (Done(r) /\ Succeeded(r, "upload")) => Called(r, "gcsDelete")

\* C7: every request that carried a file has, when it finishes, attempted
\* the deletion of the uploaded local file, and of the transcoded file when
\* one was produced, on every path.
C7_LocalDeleteAlwaysAttempted ==
  \A r \in Reqs :
    (Done(r) /\ file[r].present) =>
      /\ UnlinkAttempted(r, filePath(r))
      /\ Succeeded(r, "ffmpeg") => UnlinkAttempted(r, wavPath[r])

\* the extension of an original name is .m4a, whatever the case of its letters
IsM4aName(name) == toLowerCase(extname(name)) = M4A

\* the path multer stored the upload of request r at
StoredPath(r) == UploadDir \o <<SEP>> \o GeneratedName(r)

\* C8: for a request whose original name does not have the extension .m4a,
\* the transcoding is never invoked, the file uploaded to storage is the
\* uploaded local file itself and the object key is its generated base name.
C8_NoConversionForOtherNames ==
  \A r \in Reqs :
    (Started(r) /\ file[r].present /\ ~IsM4aName(originalName(r))) =>
      /\ ~Called(r, "ffmpeg")
      /\ pc[r] # "convert"
      /\ wavPath[r] = filePath(r)
      /\ gcsName[r] = GeneratedName(r)
      /\ Len(calls[r]) >= 1
      /\ calls[r][1] = UploadCall(StoredPath(r), GeneratedName(r))
      /\ \A c \in Range(calls[r]) :
           /\ c.op = "upload" => c = UploadCall(filePath(r), GeneratedName(r))
           /\ c.op = "recognize" => c.a = gcsUriOf(GeneratedName(r))
           /\ c.op = "gcsDelete" => c.a = GeneratedName(r)

C8_Witness ==
  \E r \in Reqs :
    /\ originalName(r) = <<"a", ".", "m", "4", "a", ".">>
    /\ Done(r)
    /\ Succeeded(r, "gcsDelete")
    /\ ~Called(r, "ffmpeg")

\* C9: for a request whose original name has the extension .m4a in any case
\* of letters, the transcoding is invoked, and when it succeeds the file
\* passed to storage is the generated name with .wav in the directory of the
\* upload, the object key is that name with .wav, and recognition is called
\* with sample rate 16000.
C9_ConvertedFileAndRate ==
  \A r \in Reqs :
    (Started(r) /\ file[r].present /\ IsM4aName(originalName(r))) =>
      /\ Len(calls[r]) >= 1
      /\ calls[r][1] =
           Call("ffmpeg", StoredPath(r), StoredPath(r) \o WAV, 16000)
      /\ Succeeded(r, "ffmpeg") =>
           /\ wavPath[r] = StoredPath(r) \o WAV
           /\ dirname(wavPath[r]) = dirname(filePath(r))
           /\ basename(wavPath[r]) = GeneratedName(r) \o WAV
           /\ gcsName[r] = GeneratedName(r) \o WAV
           /\ sampleRate[r] = 16000
           /\ Len(calls[r]) >= 2
           /\ calls[r][2] = UploadCall(StoredPath(r) \o WAV, GeneratedName(r) \o WAV)
           /\ \A c \in Range(calls[r]) :
                c.op = "recognize" =>
                  c = RecognizeCall(gcsUriOf(GeneratedName(r) \o WAV), 16000)

C9_Witness ==
  \E r \in Reqs :
    /\ originalName(r) = <<"a", ".", "M", "4", "A">>
    /\ Succeeded(r, "ffmpeg")
    /\ \E c \in Range(calls[r]) : c.op = "recognize" /\ c.n = 16000

\* the pieces of s between the occurrences of the character c
RECURSIVE SplitOn(_, _)
SplitOn(s, c) ==
  LET hits == {i \in 1..Len(s) : s[i] = c}
  IN IF hits = {} THEN <<s>>
     ELSE LET i == CHOOSE k \in hits : \A j \in hits : k <= j
          IN <<SubSeq(s, 1, i - 1)>> \o SplitOn(SubSeq(s, i + 1, Len(s)), c)

\* the transcript of the alternative of rank 0 of a result, "" without one
Rank0(result) ==
  IF ~result.alternatives.some \/ result.alternatives.val = << >> THEN Empty
  ELSE IF ~Head(result.alternatives.val).transcript.some THEN Empty
  ELSE Head(result.alternatives.val).transcript.val

\* C10: the transcript is a function of the recognition response alone: its
\* lines are, in result order, the rank 0 transcript of each result ("" for a
\* result without one), separated by one newline; a response without results
\* gives "", and a run that succeeds answers 200 with that transcript, also
\* when it is "".
C10_TranscriptExtraction ==
  \A r \in Reqs :
    Succeeded(r, "recognize") =>
      /\ LET rs == response[r].results
         IN IF ~rs.some \/ rs.val = << >>
            THEN transcription[r] = Empty
            ELSE SplitOn(transcription[r], NL) =
                   [i \in 1..Len(rs.val) |-> Rank0(rs.val[i])]
      /\ (Done(r) /\ Succeeded(r, "gcsDelete")) =>
           /\ Answered(r, JsonText(transcription[r]))
           /\ res[r][1].status = 200
      /\ \A i \in 1..Len(res[r]) :
           res[r][i].status = 200 => res[r][i] = JsonText(transcription[r])

C10_Witness ==
  \E r \in Reqs :
    /\ Done(r)
    /\ response[r].results.some
    /\ Len(response[r].results.val) = 2
    /\ response[r].results.val[1].alternatives.val =
         << [transcript |-> Some(<<"h", "i">>)], [transcript |-> Some(<<"y", "o">>)] >>
    /\ response[r].results.val[2].alternatives = Some(<< >>)
    /\ Answered(r, JsonText(<<"h", "i", NL>>))

\* C11: a /speak request whose text is missing or empty is answered 400 with
\* { error: 'Missing "text" in request body' } and the synthesis service is
\* never invoked for it.
C11_MissingTextRejected ==
  \A r \in Reqs :
    (route[r] = "/speak" /\ (~text[r].some \/ text[r].val = Empty)) =>
      /\ Done(r)
      /\ Answered(r, JsonError(400, "Missing \"text\" in request body"))
      /\ ~Called(r, "synthesize")
      /\ calls[r] = << >>
      /\ outcomes[r] = << >>

C11_Witness ==
  \E r \in Reqs :
    /\ route[r] = "/speak"
    /\ text[r] = Some(Empty)
    /\ Done(r)
    /\ Len(res[r]) = 1
    /\ res[r][1].status = 400

\* the response the claim gives a /speak request with text, from how its one
\* synthesis call ended
SpeakResponseFor(r) ==
  IF Failed(r, "synthesize") THEN JsonError(500, "Text-to-Speech failed")
  ELSE IF ~audio[r].some \/ audio[r].val = Empty
       THEN JsonError(500, "Failed to synthesize speech")
  ELSE SendAudio(audio[r].val)

\* C12: the response of a /speak request with non-empty text is determined by
\* its one synthesis call: non-empty bytes give 200 audio/mpeg with exactly
\* those bytes, an empty or absent payload gives 500 'Failed to synthesize
\* speech', a thrown failure gives 500 'Text-to-Speech failed'.
C12_SpeakResponse ==
  \A r \in Reqs :
    (route[r] = "/speak" /\ text[r].some /\ text[r].val # Empty /\ Done(r)) =>
      /\ Len(calls[r]) = 1
      /\ calls[r][1] = SynthesizeCall(text[r].val)
      /\ Answered(r, SpeakResponseFor(r))

\* the operations the handlers await on the outside world
RemoteOps == {"ffmpeg", "upload", "recognize", "gcsDelete", "synthesize"}

\* how many calls op request r has made
CountCalls(r, op) == Cardinality({i \in 1..Len(calls[r]) : calls[r][i].op = op})

\* the position of the first call op in the calls of request r
IndexOfCall(r, op) ==
  CHOOSE i \in 1..Len(calls[r]) :
    calls[r][i].op = op /\ \A j \in 1..(i - 1) : calls[r][j].op # op

\* C13: nothing is retried: a request invokes the transcoding, the upload, the
\* recognition, the remote delete and the synthesis at most once each, and
\* the first failure of transcoding, upload, recognition or synthesis ends
\* the request with an error response and without any further remote call.
C13_NoRetry ==
  \A r \in Reqs :
    /\ \A op \in RemoteOps :
         /\ CountCalls(r, op) <= 1
         /\ Cardinality({i \in 1..Len(outcomes[r]) : outcomes[r][i].op = op}) <= 1
    /\ \A op \in {"ffmpeg", "upload", "recognize", "synthesize"} :
         Failed(r, op) =>
           /\ Done(r)
           /\ Len(res[r]) = 1
           /\ res[r][1].status = 500
           /\ outcomes[r][Len(outcomes[r])] = Outcome(op, FALSE)
           /\ \A j \in (IndexOfCall(r, op) + 1)..Len(calls[r]) :
                calls[r][j].op \notin RemoteOps

C13_Witness ==
  /\ \E r \in Reqs : Done(r) /\ Failed(r, "synthesize")
  /\ \E r \in Reqs : Done(r) /\ Failed(r, "ffmpeg") /\ Called(r, "unlink")

\* request r is suspended at a remote call of the /transcribe handler
Suspended(r) == pc[r] \in {"convert", "upload", "recognize", "gcsDelete"}

\* the step that resumes a suspended request can be taken
CanResume(r) ==
  /\ pc[r] = "convert" => ENABLED ConvertDone(r, TRUE, FALSE)
  /\ pc[r] = "upload" => ENABLED UploadDone(r, TRUE)
  /\ pc[r] = "recognize" => ENABLED RecognizeDone(r, FewResponses)
  /\ pc[r] = "gcsDelete" => ENABLED DeleteDone(r, TRUE)
  /\ pc[r] = "synth" => ENABLED SynthDone(r, TRUE, None)

\* the local file and the remote object the pending call of r works on are
\* as r itself left them
ResourcesIntact(r) ==
  /\ pc[r] = "convert" => filePath(r) \in disk
  /\ pc[r] = "upload" => wavPath[r] \in disk
  /\ pc[r] \in {"recognize", "gcsDelete"} =>
       [key |-> gcsName[r], owner |-> r] \in bucket

\* the local files and the remote object of r are the ones its own steps
\* created and did not delete
OwnEffects(r) ==
  /\ file[r].present =>
       (filePath(r) \in disk <=>
          [req |-> r, path |-> filePath(r), ok |-> TRUE] \notin unlinked)
  /\ Succeeded(r, "ffmpeg") =>
       (wavPath[r] \in disk <=>
          [req |-> r, path |-> wavPath[r], ok |-> TRUE] \notin unlinked)
  /\ (\E o \in bucket : o.owner = r) <=>
       (Succeeded(r, "upload") /\ ~Succeeded(r, "gcsDelete"))
  /\ \A o \in bucket : o.owner = r => o.key = gcsName[r]

\* the generated local file names of the requests that carried a file differ
NamesDiffer ==
  \A r \in Reqs, q \in Reqs :
    (r # q /\ file[r].present /\ file[q].present) => filePath(r) # filePath(q)

\* C14: while a request is suspended at a remote call, other requests are
\* accepted and resumed; and with distinct generated file names, under every
\* interleaving the response of each request and the local files and remote
\* objects it creates and deletes are determined by its own input and by how
\* its own calls ended, as when it runs alone.
C14_RequestsIndependent ==
  NamesDiffer =>
  \A r \in Reqs :
    /\ Suspended(r) =>
         \A q \in Reqs \ {r} :
           /\ pc[q] = "idle" =>
                /\ ENABLED Transcribe(q, UploadedFile(q, WavName))
                /\ ENABLED Speak(q, Some(<<"h", "i">>))
           /\ CanResume(q)
    /\ ResourcesIntact(r)
    /\ OwnEffects(r)
    /\ (Done(r) /\ route[r] = "/transcribe") => Answered(r, ResponseFor(r))

C14_Witness ==
  \E r \in Reqs, q \in Reqs :
    /\ r # q
    /\ pc[r] = "recognize"
    /\ pc[q] = "gcsDelete"
    /\ [req |-> q, path |-> wavPath[q], ok |-> TRUE] \in unlinked
    /\ wavPath[r] \in disk
    /\ Cardinality(bucket) = 2

\* request r is between its upload and its recognition call or remote
\* delete, and the object it uploaded is no longer its own in the bucket
Clobbered(r) ==
  /\ pc[r] \in {"recognize", "gcsDelete"}
  /\ [key |-> gcsName[r], owner |-> r] \notin bucket

\* another request uploaded to the key of r, or deleted it
Interferer(r, q) ==
  /\ q # r
  /\ gcsName[q] = gcsName[r]
  /\ Succeeded(q, "upload")

\* C15: the object key is the base name of the canonical local file and
\* nothing else, so requests with the same canonical base name derive the
\* same key; when they do there is an interleaving in which one request's
\* upload overwrites, or its delete removes, the object of another request
\* that is between its upload and its recognition call or remote delete.
C15_KeyFromBaseNameOnly ==
  \A r \in Reqs :
    /\ Called(r, "upload") =>
         /\ gcsName[r] = basename(wavPath[r])
         /\ \A q \in Reqs :
              (Called(q, "upload") /\ basename(wavPath[q]) = basename(wavPath[r]))
                => gcsName[q] = gcsName[r]
    /\ Clobbered(r) => \E q \in Reqs : Interferer(r, q)

C15_Witness ==
  \E r \in Reqs, q \in Reqs :
    /\ pc[r] = "recognize"
    /\ Interferer(r, q)
    /\ [key |-> gcsName[r], owner |-> q] \in bucket
    /\ pc[q] \in {"recognize", "gcsDelete"}

\* the place of a call in the pipeline of /transcribe
StageOf(op) ==
  CASE op = "ffmpeg" -> 1
    [] op = "upload" -> 2
    [] op = "recognize" -> 3
    [] op = "unlink" -> 4
    [] op = "gcsDelete" -> 5
    [] OTHER -> 0

\* C16: within one /transcribe request the stages happen in a fixed order:
\* the transcoding, when the name asks for one, has ended well before the
\* upload is started; the upload has ended well before the recognition call is
\* started; no unlink of the file that is uploaded and no remote delete is
\* started before the recognition call has returned; the 200 response is sent
\* only after the remote delete has ended well.  The calls and their outcomes
\* are recorded in this order.
C16_StageOrder ==
  \A r \in Reqs :
    route[r] = "/transcribe" =>
      /\ Called(r, "upload") =>
           /\ IsM4aName(originalName(r)) => Succeeded(r, "ffmpeg")
           /\ ~IsM4aName(originalName(r)) => ~Called(r, "ffmpeg")
      /\ Called(r, "recognize") => Succeeded(r, "upload")
      /\ ~Failed(r, "ffmpeg") /\ (UnlinkAttempted(r, wavPath[r]) \/ Called(r, "gcsDelete"))
           => Succeeded(r, "recognize")
      /\ (\E i \in 1..Len(res[r]) : res[r][i].status = 200)
           => Succeeded(r, "gcsDelete")
      /\ \A i, j \in 1..Len(calls[r]) :
           i < j => StageOf(calls[r][i].op) <= StageOf(calls[r][j].op)
      /\ \A i, j \in 1..Len(outcomes[r]) :
           i < j => StageOf(outcomes[r][i].op) < StageOf(outcomes[r][j].op)

C16_Witness ==
  \E r \in Reqs :
    /\ Done(r)
    /\ IsM4aName(originalName(r))
    /\ Answered(r, JsonText(transcription[r]))
    /\ [i \in 1..Len(outcomes[r]) |-> outcomes[r][i].op]
         = <<"ffmpeg", "upload", "recognize", "gcsDelete">>
    /\ [i \in 1..Len(calls[r]) |-> calls[r][i].op]
         = <<"ffmpeg", "upload", "recognize", "unlink", "unlink", "gcsDelete">>

\* request r failed at the storage upload or at the recognition call
RemoteStageFailed(r) == Failed(r, "upload") \/ Failed(r, "recognize")

\* C17: the cleanup runs only along the success path.  When the storage upload
\* or the recognition call fails, the request ends with 500 and has asked for
\* no deletion, local or remote: the uploaded file and the transcoded file are
\* still on the disk, and the object a failed recognition was given is still
\* in the bucket.  A deletion is asked for only after the recognition succeeded,
\* or, for the uploaded file alone, in the transcoding-failure branch.
C17_CleanupOnlyOnSuccess ==
  \A r \in Reqs :
    /\ RemoteStageFailed(r) =>
         /\ Done(r)
         /\ Answered(r, Send(500, "Transcription failed."))
         /\ ~Called(r, "unlink")
         /\ ~Called(r, "gcsDelete")
         /\ \A u \in unlinks \cup unlinked : u.req # r
         /\ filePath(r) \in disk
         /\ wavPath[r] \in disk
         /\ Failed(r, "recognize") => [key |-> gcsName[r], owner |-> r] \in bucket
    /\ \A c \in Range(calls[r]) :
         /\ c.op = "unlink" =>
              \/ Succeeded(r, "recognize")
              \/ Failed(r, "ffmpeg") /\ c = UnlinkCall(filePath(r))
         /\ c.op = "gcsDelete" => Succeeded(r, "recognize")

C17_Witness ==
  /\ \E r \in Reqs :
       /\ Done(r)
       /\ Failed(r, "upload")
       /\ Succeeded(r, "ffmpeg")
       /\ filePath(r) # wavPath[r]
       /\ {filePath(r), wavPath[r]} \subseteq disk
  /\ \E r \in Reqs :
       /\ Done(r)
       /\ Failed(r, "recognize")
       /\ gcsName[r] \in Keys(bucket)

\* how many times request r has asked for the deletion of the local path p
CountUnlinks(r, p) ==
  Cardinality({i \in 1..Len(calls[r]) : calls[r][i] = UnlinkCall(p)})

\* C18: on the success path every local file of the request gets exactly one
\* deletion attempt: after a transcoding the uploaded file and the .wav file
\* are two files and each is unlinked once; without a transcoding the file
\* that was uploaded to storage is the uploaded file, and it is unlinked once
\* and not twice.
C18_OneUnlinkPerFile ==
  \A r \in Reqs :
    Succeeded(r, "recognize") =>
      /\ CountUnlinks(r, filePath(r)) = 1
      /\ CountUnlinks(r, wavPath[r]) = 1
      /\ Succeeded(r, "ffmpeg") =>
           /\ filePath(r) # wavPath[r]
           /\ CountCalls(r, "unlink") = 2
      /\ ~Called(r, "ffmpeg") =>
           /\ filePath(r) = wavPath[r]
           /\ CountCalls(r, "unlink") = 1
      /\ \A p \in {filePath(r), wavPath[r]} :
           Cardinality({u \in unlinks \cup unlinked : u.req = r /\ u.path = p}) = 1

C18_Witness ==
  /\ \E r \in Reqs :
       /\ Succeeded(r, "recognize")
       /\ Succeeded(r, "ffmpeg")
       /\ CountCalls(r, "unlink") = 2
  /\ \E r \in Reqs :
       /\ Succeeded(r, "recognize")
       /\ ~Called(r, "ffmpeg")
       /\ CountCalls(r, "unlink") = 1

\* the error strings the /transcribe handler answers with
TranscribeErrors ==
  {Send(400, "No audio file uploaded"),
   Send(500, "Could not convert m4a to wav"),
   Send(500, "Transcription failed.")}

\* C19: every /transcribe and /speak request ends with exactly one response on
\* every path: a handler that has ended has sent one response and a handler
\* that has not ended has sent none, so none sends two.  The response of a
\* /transcribe request is either 200 with the whole transcript of the
\* recognition response or one of the error strings, and the 200 is sent only
\* when no awaited call of the request failed.
C19_ExactlyOneResponse ==
  \A r \in Reqs :
    /\ Done(r) => Len(res[r]) = 1
    /\ ~Done(r) => res[r] = << >>
    /\ (Done(r) /\ route[r] = "/transcribe") =>
         \/ /\ res[r][1] = JsonText(Transcription(response[r]))
            /\ Succeeded(r, "gcsDelete")
            /\ \A o \in Range(outcomes[r]) : o.ok
         \/ /\ res[r][1] \in TranscribeErrors
            /\ ~Succeeded(r, "gcsDelete")
    /\ (Done(r) /\ route[r] = "/speak") =>
         \/ res[r][1].status = 200 /\ res[r][1].kind = "send"
         \/ res[r][1].status \in {400, 500} /\ res[r][1].kind = "json"

C19_Witness ==
  /\ \E r \in Reqs :
       /\ Done(r)
       /\ route[r] = "/transcribe"
       /\ UnlinkFailed(r)
       /\ Answered(r, JsonText(Transcription(response[r])))
       /\ transcription[r] # Empty
  /\ \E r \in Reqs :
       /\ Done(r)
       /\ route[r] = "/speak"
       /\ Succeeded(r, "synthesize")
       /\ Answered(r, JsonError(500, "Failed to synthesize speech"))

\* the path the transcoding of request r writes to
TargetWav(r) == convertM4aToWav(filePath(r)).wavPath

\* C20: when the transcoding fails, the request asks for the deletion of the
\* uploaded file and of nothing else: its calls are the transcoding and that
\* one unlink, and no unlink of the target .wav path is asked for, pending or
\* completed.  A partial .wav file that the transcoding left is therefore
\* still there after the 500 response.
C20_TargetWavNotDeleted ==
  \A r \in Reqs :
    Failed(r, "ffmpeg") =>
      /\ Answered(r, Send(500, "Could not convert m4a to wav"))
      /\ calls[r] = <<FfmpegCall(filePath(r)), UnlinkCall(filePath(r))>>
      /\ TargetWav(r) # filePath(r)
      /\ ~UnlinkAttempted(r, TargetWav(r))
      /\ \A u \in unlinks \cup unlinked : u.req = r => u.path = filePath(r)

C20_Witness ==
  \E r \in Reqs :
    /\ Done(r)
    /\ Failed(r, "ffmpeg")
    /\ Answered(r, Send(500, "Could not convert m4a to wav"))
    /\ \A u \in unlinks : u.req # r
    /\ filePath(r) \notin disk
    /\ TargetWav(r) \in disk

====
